---- MODULE Spec2Model ----
(***************************************************************************)
(* ThroughputBenchmark::_run_core (src/src/ThroughputBenchmark.cpp).       *)
(*                                                                         *)
(* The orchestrator thread walks through _run_core one statement group at  *)
(* a time (variable pc); every worker thread that create_and_start() has   *)
(* launched is a separate process that finishes at a moment of its own.    *)
(*                                                                         *)
(* double values are modelled as exact non-negative fractions extended     *)
(* with +inf and NaN, with the IEEE-754 rules for division by zero;        *)
(* rounding is not modelled.  uint64_t counters stay far below 2^64 within *)
(* the bounds, so their wrap-around is not modelled either.                *)
(***************************************************************************)
EXTENDS Integers, Sequences, FiniteSets, TLC

(* ------------------------------ bounds --------------------------------- *)
MaxWorkers == 2
MaxIter == 2
MaxLen == 3
NsPerTick == 2
CpusInNode == 1
MaxTimeouts == 1
MaxCalls == 2

(* -------------------------- program constants -------------------------- *)
\* common.h: #define MB 1048576
MB == 1048576
\* the literal 1e9 of the metric expression
E9 == 1000000000

(* ------------------------- double arithmetic --------------------------- *)
RECURSIVE GCD(_, _)
GCD(a, b) == IF b = 0 THEN a ELSE GCD(b, a % b)

Fin(n, d) == LET g == GCD(n, d) IN [k |-> "fin", n |-> n \div g, d |-> d \div g]
Inf == [k |-> "inf", n |-> 1, d |-> 0]
NaN == [k |-> "nan", n |-> 0, d |-> 0]
Zero == [k |-> "fin", n |-> 0, d |-> 1]

\* static_cast<double>(x) of an unsigned counter
ToDouble(x) == Fin(x, 1)

IsZero(a) == a.k = "fin" /\ a.n = 0

\* a * b for non-negative doubles
DMul(a, b) ==
    IF a.k = "nan" \/ b.k = "nan" THEN NaN
    ELSE IF a.k = "inf" \/ b.k = "inf"
         THEN (IF IsZero(a) \/ IsZero(b) THEN NaN ELSE Inf)
    ELSE LET g1 == GCD(a.n, b.d)
             g2 == GCD(b.n, a.d)
         IN  Fin((a.n \div g1) * (b.n \div g2), (a.d \div g2) * (b.d \div g1))

\* a / b for non-negative doubles: x/0 is +inf, 0/0 is NaN
DDiv(a, b) ==
    IF a.k = "nan" \/ b.k = "nan" THEN NaN
    ELSE IF b.k = "inf" THEN (IF a.k = "inf" THEN NaN ELSE Zero)
    ELSE IF a.k = "inf" THEN Inf
    ELSE IF b.n = 0 THEN (IF a.n = 0 THEN NaN ELSE Inf)
    ELSE DMul(a, [k |-> "fin", n |-> b.d, d |-> b.n])

\* a + b for non-negative doubles
DAdd(a, b) ==
    IF a.k = "nan" \/ b.k = "nan" THEN NaN
    ELSE IF a.k = "inf" \/ b.k = "inf" THEN Inf
    ELSE LET g == GCD(a.d, b.d)
             l == (a.d \div g) * b.d
         IN  Fin(a.n * (l \div a.d) + b.n * (l \div b.d), l)

IsFinite(a) == a.k = "fin"

(* ------------------------------- state --------------------------------- *)
VARIABLES
    config,          \* the immutable members set by the constructor, and the collaborators' behaviour
    pc,              \* position of the orchestrator in _run_core
    ret,             \* value returned by _run_core: "none" while it runs, then "true" or "false"
    i,               \* loop variable of the iteration loop
    t,               \* loop variable of the current inner loop
    workers,         \* std::vector<ThroughputBenchmarkWorker*> workers
    worker_threads,  \* std::vector<Thread*> worker_threads
    running,         \* ids of the workers whose run() is executing on an OS thread
    power,           \* the power readers: calls of start and stop and their results
    locals,          \* total_passes, total_adjusted_ticks, ..., iter_warning
    _metricOnIter,   \* one metric per iteration
    _averageMetric,  \* the running sum, then the average
    _hasRun,         \* the completion flag
    hist             \* history of the call: what was done, per iteration

vars == <<config, pc, ret, i, t, workers, worker_threads, running, power, locals,
          _metricOnIter, _averageMetric, _hasRun, hist>>

\* members of the Benchmark base class
_len == config.len
_num_worker_threads == config.num_worker_threads
_iterations == config.iterations
ns_per_tick == config.ns_per_tick

Iters == 0 .. (_iterations - 1)
Slots == 0 .. (_num_worker_threads - 1)


(* --------------------------- collaborators ----------------------------- *)
\* determineSequentialKernel(_rw_mode, _chunk_size, _stride_size, ...): whether a
\* kernel exists for the configured triple
determineSequentialKernel == config.kernel_found

\* cpu_id_in_numa_node(_cpu_node, t): the t-th logical CPU of the node, or a
\* negative id when the node has no such CPU
cpu_id_in_numa_node(slot) == IF slot < config.cpus_in_node THEN slot ELSE -1

\* Thread::join(): true when the worker has completed; false when the wait gave
\* up while the worker is still running (soft timeout, the thread is left alone)
JoinResult(th) == th.target \notin running

\* join() returns: the worker has completed, or the wait gives up (at most
\* MaxTimeouts times in a run)
JoinReturns(th) == JoinResult(th) \/ Cardinality(hist.timed_out) < MaxTimeouts

\* what a worker can report once its run() has completed
WorkerResults == config.results

\* a freshly constructed ThroughputBenchmarkWorker: counters zero, no warning
NewWorker(id, mem, len, cpu_id) ==
    [id |-> id, mem |-> mem, len |-> len, cpu_id |-> cpu_id,
     passes |-> 0, adjusted_ticks |-> 0, elapsed_dummy_ticks |-> 0,
     bytes_per_pass |-> config.bytes_per_pass, warning |-> FALSE, alive |-> TRUE,
     foreign |-> FALSE]

\* a freshly constructed Thread wrapping the worker object `target`
NewThread(target) ==
    [target |-> target, started |-> FALSE, joined |-> "none", alive |-> TRUE]

\* a deleted worker, a deleted Thread: the pointer stays in the vector until
\* clear(), the contents of the freed object no longer matter
DeletedWorker == [NewWorker(<<0, 0>>, 0, 0, 0) EXCEPT !.bytes_per_pass = 0, !.alive = FALSE]
DeletedThread == [NewThread(<<0, 0>>) EXCEPT !.alive = FALSE]

(* ------------------------------- Init ---------------------------------- *)
\* the counters a worker reports: passes, adjusted ticks, dummy ticks, warning
Result(p, a, d, w) ==
    [passes |-> p, adjusted_ticks |-> a, elapsed_dummy_ticks |-> d, warning |-> w]

\* zero adjusted ticks with a warning; one tick; two ticks
SmallResults ==
    {Result(1, 0, 1, TRUE), Result(1, 1, 0, FALSE), Result(1, 2, 1, FALSE)}

ExampleResults == {Result(100, 1000000, 0, FALSE)}

SliceResults == {Result(1, 1, 0, FALSE)}

SmallConfigs ==
    [kernel_found : BOOLEAN,
     len : {MaxLen},
     num_worker_threads : 1 .. MaxWorkers,
     iterations : 0 .. MaxIter,
     ns_per_tick : {NsPerTick},
     cpus_in_node : {CpusInNode},
     trace_writes : {FALSE},
     bytes_per_pass : {64},
     results : {SmallResults}]

\* every buffer length up to MaxLen, with workers that all report the same
SliceConfigs ==
    [kernel_found : {TRUE},
     len : 0 .. MaxLen,
     num_worker_threads : 1 .. MaxWorkers,
     iterations : 0 .. MaxIter,
     ns_per_tick : {NsPerTick},
     cpus_in_node : {CpusInNode},
     trace_writes : {FALSE},
     bytes_per_pass : {64},
     results : {SliceResults}]

\* the worked example: 1 MiB buffer, 4 workers, each 100 passes of 64 bytes in
\* 1,000,000 adjusted ticks at 1 ns per tick
ExampleConfigs ==
    [kernel_found : {TRUE},
     len : {1048576},
     num_worker_threads : {4},
     iterations : {1},
     ns_per_tick : {1},
     cpus_in_node : {4},
     trace_writes : {FALSE},
     bytes_per_pass : {64},
     results : {ExampleResults}]

NoLocals ==
    [total_passes |-> 0, total_adjusted_ticks |-> 0, avg_adjusted_ticks |-> 0,
     total_elapsed_dummy_ticks |-> 0, bytes_per_pass |-> 0, iter_warning |-> FALSE]

\* the object as constructed, before _run_core is called: no metric has been
\* stored, the sum is zero and the completion flag is clear
\* the power readers as a call finds them
NoPower == [starts |-> 0, stops |-> 0, start_ok |-> "none", stop_ok |-> "none"]

\* what is recorded of a call that begins: nothing has happened in it yet;
\* entry_* are the members as the call finds them, calls counts the calls made
\* on the object, prev_* are the results the call before left behind and
\* prev_clean tells that it returned true without any join() timing out
NewCall(average, hasRun, calls, prev_metrics, prev_clean) ==
    [built |-> [j \in Iters |-> 0],
     started |-> [j \in Iters |-> 0],
     joined |-> [j \in Iters |-> 0],
     timed_out |-> {},
     read |-> [j \in Iters |-> 0],
     written |-> [j \in Iters |-> 0],
     destroyed |-> [j \in Iters |-> 0],
     seen |-> << >>,
     entry_average |-> average,
     entry_hasRun |-> hasRun,
     calls |-> calls,
     prev_metrics |-> prev_metrics,
     prev_clean |-> prev_clean]

InitFor(configs) ==
    /\ config \in configs
    /\ pc = "entry"
    /\ ret = "none"
    /\ i = 0
    /\ t = 0
    /\ workers = << >>
    /\ worker_threads = << >>
    /\ running = {}
    /\ power = NoPower
    /\ locals = NoLocals
    /\ _metricOnIter = [j \in Iters |-> Zero]
    /\ _averageMetric = Zero
    /\ _hasRun = FALSE
    /\ hist = NewCall(Zero, FALSE, 1, [j \in Iters |-> Zero], FALSE)

Init == InitFor(SmallConfigs \cup ExampleConfigs)

InitSlices == InitFor(SliceConfigs)

(* ------------------------- the orchestrator ---------------------------- *)
\* mutant: the per-worker length is rounded up instead of down
len_per_thread_RoundedUp == (_len + _num_worker_threads - 1) \div _num_worker_threads

\* size_t len_per_thread = _len / _num_worker_threads
len_per_thread == _len \div _num_worker_threads

\* the test of the iteration loop: for (i = 0; i < _iterations; i++)
\* mutant: the loop condition is off by one, the last iteration is not run
LoopTarget_OneShort(j) == IF j + 1 < _iterations THEN "construct" ELSE "stop_power"

LoopTarget(j) == IF j < _iterations THEN "construct" ELSE "stop_power"

\* mutant: the failure of the kernel resolution is reported but the run goes on
DetermineKernel_NoReturn ==
    /\ pc = "entry"
    /\ pc' = "start_power"
    /\ UNCHANGED <<config, ret, i, t, workers, worker_threads, running, power, locals,
                   _metricOnIter, _averageMetric, _hasRun, hist>>

\* kernel resolution: return false when no kernel matches
\* mutant: the failure path marks the benchmark as run
DetermineKernel_MarksRun ==
    /\ pc = "entry"
    /\ IF ~determineSequentialKernel
       THEN /\ pc' = "returned"
            /\ ret' = "false"
            /\ _hasRun' = TRUE
       ELSE /\ pc' = "start_power"
            /\ ret' = ret
            /\ _hasRun' = _hasRun
    /\ UNCHANGED <<config, i, t, workers, worker_threads, running, power, locals,
                   _metricOnIter, _averageMetric, hist>>

DetermineKernel ==
    /\ pc = "entry"
    /\ IF ~determineSequentialKernel
       THEN /\ pc' = "returned"
            /\ ret' = "false"
       ELSE /\ pc' = "start_power"
            /\ ret' = ret
    /\ UNCHANGED <<config, i, t, workers, worker_threads, running, power, locals,
                   _metricOnIter, _averageMetric, _hasRun, hist>>

\* mutant: a failure to start the power readers aborts the run
StartPower_AbortOnFailure ==
    /\ pc = "start_power"
    /\ \E ok \in BOOLEAN :
          /\ power' = [power EXCEPT !.starts = @ + 1, !.start_ok = IF ok THEN "ok" ELSE "failed"]
          /\ IF ok THEN pc' = LoopTarget(0) /\ ret' = ret
                   ELSE pc' = "returned" /\ ret' = "false"
    /\ i' = 0
    /\ t' = 0
    /\ UNCHANGED <<config, workers, worker_threads, running, locals,
                   _metricOnIter, _averageMetric, _hasRun, hist>>

\* _start_power_threads(): a failure is only reported; then the loop is entered
StartPower ==
    /\ pc = "start_power"
    /\ \E ok \in BOOLEAN :
          power' = [power EXCEPT !.starts = @ + 1, !.start_ok = IF ok THEN "ok" ELSE "failed"]
    /\ i' = 0
    /\ t' = 0
    /\ pc' = LoopTarget(0)
    /\ UNCHANGED <<config, ret, workers, worker_threads, running, locals,
                   _metricOnIter, _averageMetric, _hasRun, hist>>

\* mutant: each thread is started as soon as it has been constructed
ConstructWorker_StartsAtOnce ==
    /\ pc = "construct"
    /\ LET ws == Append(workers, NewWorker(<<i, t>>, t * len_per_thread, len_per_thread,
                                           cpu_id_in_numa_node(t)))
       IN  /\ workers' = ws
           /\ worker_threads' = Append(worker_threads,
                                       [NewThread(ws[t + 1].id) EXCEPT !.started = TRUE])
           /\ running' = running \cup {ws[t + 1].id}
    /\ hist' = [hist EXCEPT !.built[i] = @ + 1, !.started[i] = @ + 1]
    /\ IF t + 1 < _num_worker_threads
       THEN /\ t' = t + 1
            /\ pc' = pc
       ELSE /\ t' = 0
            /\ pc' = "join"
    /\ UNCHANGED <<config, ret, i, power, locals, _metricOnIter, _averageMetric, _hasRun>>

\* one round of the construction loop: the slice, the CPU id, the worker, its Thread
ConstructWorker ==
    /\ pc = "construct"
    /\ LET thread_mem_array == t * len_per_thread
           cpu_id == cpu_id_in_numa_node(t)
           ws == Append(workers, NewWorker(<<i, t>>, thread_mem_array, len_per_thread, cpu_id))
       IN  /\ workers' = ws
           /\ worker_threads' = Append(worker_threads, NewThread(ws[t + 1].id))
    /\ hist' = [hist EXCEPT !.built[i] = @ + 1]
    /\ IF t + 1 < _num_worker_threads
       THEN /\ t' = t + 1
            /\ pc' = pc
       ELSE /\ t' = 0
            /\ pc' = "start"
    /\ UNCHANGED <<config, ret, i, running, power, locals, _metricOnIter,
                   _averageMetric, _hasRun>>

\* mutant: the join loop is missing, aggregation follows the start loop
StartWorker_NoJoin ==
    /\ pc = "start"
    /\ worker_threads' = [worker_threads EXCEPT ![t + 1].started = TRUE]
    /\ running' = running \cup {worker_threads[t + 1].target}
    /\ hist' = [hist EXCEPT !.started[i] = @ + 1]
    /\ IF t + 1 < _num_worker_threads
       THEN /\ t' = t + 1
            /\ pc' = pc
       ELSE /\ t' = 0
            /\ pc' = "aggregate_init"
    /\ UNCHANGED <<config, ret, i, workers, power, locals, _metricOnIter,
                   _averageMetric, _hasRun>>

\* one round of the start loop: worker_threads[t]->create_and_start()
StartWorker ==
    /\ pc = "start"
    /\ worker_threads' = [worker_threads EXCEPT ![t + 1].started = TRUE]
    /\ running' = running \cup {worker_threads[t + 1].target}
    /\ hist' = [hist EXCEPT !.started[i] = @ + 1]
    /\ IF t + 1 < _num_worker_threads
       THEN /\ t' = t + 1
            /\ pc' = pc
       ELSE /\ t' = 0
            /\ pc' = "join"
    /\ UNCHANGED <<config, ret, i, workers, power, locals, _metricOnIter,
                   _averageMetric, _hasRun>>

\* mutant: the join loop is left at the first join() that returns false
JoinWorker_StopsAtFirstFailure ==
    /\ pc = "join"
    /\ JoinReturns(worker_threads[t + 1])
    /\ LET r == JoinResult(worker_threads[t + 1])
       IN  /\ worker_threads' = [worker_threads EXCEPT
                                  ![t + 1].joined = IF r THEN "true" ELSE "false"]
           /\ hist' = [hist EXCEPT !.joined[i] = @ + 1,
                                   !.timed_out = IF r THEN @
                                                 ELSE @ \cup {worker_threads[t + 1].target}]
           /\ IF r /\ t + 1 < _num_worker_threads
              THEN /\ t' = t + 1
                   /\ pc' = pc
              ELSE /\ t' = 0
                   /\ pc' = "aggregate_init"
    /\ UNCHANGED <<config, ret, i, workers, running, power, locals, _metricOnIter,
                   _averageMetric, _hasRun>>

\* one round of the join loop: a false result is only reported
JoinWorker ==
    /\ pc = "join"
    /\ JoinReturns(worker_threads[t + 1])
    /\ LET r == JoinResult(worker_threads[t + 1])
       IN  /\ worker_threads' = [worker_threads EXCEPT
                                  ![t + 1].joined = IF r THEN "true" ELSE "false"]
           /\ hist' = [hist EXCEPT !.joined[i] = @ + 1,
                                   !.timed_out = IF r THEN @
                                                 ELSE @ \cup {worker_threads[t + 1].target}]
    /\ IF t + 1 < _num_worker_threads
       THEN /\ t' = t + 1
            /\ pc' = pc
       ELSE /\ t' = 0
            /\ pc' = "aggregate_init"
    /\ UNCHANGED <<config, ret, i, workers, running, power, locals, _metricOnIter,
                   _averageMetric, _hasRun>>

\* the totals are zeroed and bytes_per_pass is read from workers[0]
AggregateInit ==
    /\ pc = "aggregate_init"
    /\ locals' = [NoLocals EXCEPT !.bytes_per_pass = workers[1].bytes_per_pass]
    /\ t' = 0
    /\ pc' = "aggregate"
    /\ UNCHANGED <<config, ret, i, workers, worker_threads, running, power,
                   _metricOnIter, _averageMetric, _hasRun, hist>>

\* one round of the aggregation loop: the counters of workers[t] are read
AggregateWorker ==
    /\ pc = "aggregate"
    /\ LET w == workers[t + 1]
       IN  locals' = [locals EXCEPT
                        !.total_passes = @ + w.passes,
                        !.total_adjusted_ticks = @ + w.adjusted_ticks,
                        !.total_elapsed_dummy_ticks = @ + w.elapsed_dummy_ticks,
                        !.iter_warning = @ \/ w.warning]
    /\ hist' = [hist EXCEPT !.read[i] = @ + 1,
                            !.seen = Append(@, workers[t + 1])]
    /\ IF t + 1 < _num_worker_threads
       THEN /\ t' = t + 1
            /\ pc' = pc
       ELSE /\ t' = 0
            /\ pc' = "metric"
    /\ UNCHANGED <<config, ret, i, workers, worker_threads, running, power,
                   _metricOnIter, _averageMetric, _hasRun>>

\* mutant: the total is used where the per-worker average is meant
AvgAdjustedTicks_Total(total_adjusted_ticks) == total_adjusted_ticks

\* avg_adjusted_ticks = total_adjusted_ticks / _num_worker_threads
AvgAdjustedTicks(total_adjusted_ticks) == total_adjusted_ticks \div _num_worker_threads

\* the metric expression of an iteration
Metric(total_passes, bytes_per_pass, avg_adjusted_ticks) ==
    DDiv(DDiv(DMul(ToDouble(total_passes), ToDouble(bytes_per_pass)), ToDouble(MB)),
         DDiv(DMul(ToDouble(avg_adjusted_ticks), ToDouble(ns_per_tick)), ToDouble(E9)))

\* the metric of iteration i is stored and added to _averageMetric
\* mutant: every iteration stores its metric in the first element
ComputeMetric_FirstElement ==
    /\ pc = "metric"
    /\ LET avg == AvgAdjustedTicks(locals.total_adjusted_ticks)
           m == Metric(locals.total_passes, locals.bytes_per_pass, avg)
       IN  /\ locals' = [locals EXCEPT !.avg_adjusted_ticks = avg]
           /\ _metricOnIter' = [_metricOnIter EXCEPT ![0] = m]
           /\ _averageMetric' = DAdd(_averageMetric, m)
    /\ hist' = [hist EXCEPT !.written[0] = @ + 1]
    /\ t' = 0
    /\ pc' = "cleanup"
    /\ UNCHANGED <<config, ret, i, workers, worker_threads, running, power, _hasRun>>

ComputeMetric ==
    /\ pc = "metric"
    /\ LET avg == AvgAdjustedTicks(locals.total_adjusted_ticks)
           m == Metric(locals.total_passes, locals.bytes_per_pass, avg)
       IN  /\ locals' = [locals EXCEPT !.avg_adjusted_ticks = avg]
           /\ _metricOnIter' = [_metricOnIter EXCEPT ![i] = m]
           /\ _averageMetric' = DAdd(_averageMetric, m)
    /\ hist' = [hist EXCEPT !.written[i] = @ + 1]
    /\ t' = 0
    /\ pc' = "cleanup"
    /\ UNCHANGED <<config, ret, i, workers, worker_threads, running, power, _hasRun>>

\* one round of the clean-up loop: delete worker_threads[t]; delete workers[t];
\* after the last round both vectors are cleared and the next iteration begins
Cleanup ==
    /\ pc = "cleanup"
    /\ hist' = [hist EXCEPT !.destroyed[i] = @ + 1,
                            !.seen = IF t + 1 < _num_worker_threads THEN @ ELSE << >>]
    /\ IF t + 1 < _num_worker_threads
       THEN /\ worker_threads' = [worker_threads EXCEPT ![t + 1] = DeletedThread]
            /\ workers' = [workers EXCEPT ![t + 1] = DeletedWorker]
            /\ locals' = locals
            /\ t' = t + 1
            /\ i' = i
            /\ pc' = pc
       ELSE /\ worker_threads' = << >>
            /\ workers' = << >>
            /\ locals' = NoLocals
            /\ t' = 0
            /\ i' = i + 1
            /\ pc' = LoopTarget(i + 1)
    /\ UNCHANGED <<config, ret, running, power, _metricOnIter, _averageMetric, _hasRun>>

\* mutant: the power readers are stopped only when their start had succeeded
StopPower_OnlyIfStarted ==
    /\ pc = "stop_power"
    /\ \E ok \in BOOLEAN :
          power' = IF power.start_ok = "ok"
                   THEN [power EXCEPT !.stops = @ + 1, !.stop_ok = IF ok THEN "ok" ELSE "failed"]
                   ELSE power
    /\ pc' = "finalize"
    /\ UNCHANGED <<config, ret, i, t, workers, worker_threads, running, locals,
                   _metricOnIter, _averageMetric, _hasRun, hist>>

\* _stop_power_threads(): a failure is only reported
StopPower ==
    /\ pc = "stop_power"
    /\ \E ok \in BOOLEAN :
          power' = [power EXCEPT !.stops = @ + 1, !.stop_ok = IF ok THEN "ok" ELSE "failed"]
    /\ pc' = "finalize"
    /\ UNCHANGED <<config, ret, i, t, workers, worker_threads, running, locals,
                   _metricOnIter, _averageMetric, _hasRun, hist>>

\* mutant: the accumulated sum is not divided by the iteration count
Finalize_NoDivide ==
    /\ pc = "finalize"
    /\ _hasRun' = TRUE
    /\ ret' = "true"
    /\ pc' = "returned"
    /\ UNCHANGED <<config, i, t, workers, worker_threads, running, power, locals,
                   _metricOnIter, _averageMetric, hist>>

\* _averageMetric /= _iterations; _hasRun = true; return true
\* mutant: a call without iterations is reported as failed
Finalize_FailsWithoutIterations ==
    /\ pc = "finalize"
    /\ IF _iterations = 0
       THEN /\ ret' = "false"
            /\ UNCHANGED <<_averageMetric, _hasRun>>
       ELSE /\ _averageMetric' = DDiv(_averageMetric, ToDouble(_iterations))
            /\ _hasRun' = TRUE
            /\ ret' = "true"
    /\ pc' = "returned"
    /\ UNCHANGED <<config, i, t, workers, worker_threads, running, power, locals,
                   _metricOnIter, hist>>

Finalize ==
    /\ pc = "finalize"
    /\ _averageMetric' = DDiv(_averageMetric, ToDouble(_iterations))
    /\ _hasRun' = TRUE
    /\ ret' = "true"
    /\ pc' = "returned"
    /\ UNCHANGED <<config, i, t, workers, worker_threads, running, power, locals,
                   _metricOnIter, hist>>

(* ------------------------- the worker threads -------------------------- *)
\* the slots of `workers` that hold the live worker object `id`
LiveSlots(id) == {s \in 1 .. Len(workers) : workers[s].alive /\ workers[s].id = id}

\* the slots of `workers` that hold any live worker object
AllLiveSlots == {s \in 1 .. Len(workers) : workers[s].alive}

\* the counters the run() of worker `id` leaves in the object w: what it has
\* measured, and a warning also when it could not be bound to a CPU; foreign
\* records, where writes are traced, that w is not the object the thread was
\* started on
Publish(w, r, id) ==
    [w EXCEPT !.passes = r.passes, !.adjusted_ticks = r.adjusted_ticks,
              !.elapsed_dummy_ticks = r.elapsed_dummy_ticks,
              !.warning = r.warning \/ cpu_id_in_numa_node(id[2]) < 0,
              !.foreign = (config.trace_writes /\ w.id # id)]

\* a worker's run() completes and publishes its counters in its own object.  When
\* the object has been deleted meanwhile the write goes to freed memory: it is
\* lost, or it lands in an object that has taken the memory over.
WorkerFinish ==
    \E id \in running :
       /\ running' = running \ {id}
       /\ \E r \in WorkerResults :
             IF LiveSlots(id) # {}
             THEN workers' = [s \in 1 .. Len(workers) |->
                                IF s \in LiveSlots(id) THEN Publish(workers[s], r, id)
                                ELSE workers[s]]
             ELSE \/ workers' = workers
                  \/ \E s \in AllLiveSlots :
                        workers' = [workers EXCEPT ![s] = Publish(@, r, id)]
       /\ UNCHANGED <<config, pc, ret, i, t, worker_threads, power, locals,
                      _metricOnIter, _averageMetric, _hasRun, hist>>

Next ==
    \/ DetermineKernel
    \/ StartPower
    \/ ConstructWorker
    \/ StartWorker
    \/ JoinWorker
    \/ AggregateInit
    \/ AggregateWorker
    \/ ComputeMetric
    \/ Cleanup
    \/ StopPower
    \/ Finalize
    \/ WorkerFinish

Spec == Init /\ [][Next]_vars

\* the runs in which it is recorded whose thread has written a worker's counters
TraceConfigs ==
    {[c EXCEPT !.trace_writes = TRUE] : c \in {sc \in SliceConfigs : sc.len = MaxLen}}

InitTrace == InitFor(TraceConfigs)

SpecTrace == InitTrace /\ [][Next]_vars

\* the steps of the thread that executes _run_core(), but for ComputeMetric
Orchestrator ==
    \/ DetermineKernel
    \/ StartPower
    \/ ConstructWorker
    \/ StartWorker
    \/ JoinWorker
    \/ AggregateInit
    \/ AggregateWorker
    \/ Cleanup
    \/ StopPower
    \/ Finalize

\* the calling thread keeps executing while it is not blocked in a join(), and
\* the run() of a started worker comes to an end, so that every join() returns.
\* ComputeMetric is enabled exactly when pc = "metric" and is the only step that
\* leaves that place, so weak fairness of it is []<>(pc # "metric").
SpecFair ==
    /\ InitSlices
    /\ [][Next]_vars
    /\ WF_vars(Orchestrator)
    /\ []<>(pc # "metric")
    /\ WF_vars(WorkerFinish)

\* _run_core() is called again on the same object once the call before has
\* returned and the threads it left behind have ended: the members keep their
\* values, the locals of the function start afresh
RunAgain ==
    /\ pc = "returned"
    /\ running = {}
    /\ hist.calls < MaxCalls
    /\ pc' = "entry"
    /\ ret' = "none"
    /\ i' = 0
    /\ t' = 0
    /\ power' = NoPower
    /\ hist' = NewCall(_averageMetric, _hasRun, hist.calls + 1, _metricOnIter,
                       ret = "true" /\ hist.timed_out = {})
    /\ UNCHANGED <<config, workers, worker_threads, running, locals,
                   _metricOnIter, _averageMetric, _hasRun>>

NextRerun ==
    \/ Next
    \/ RunAgain

\* objects whose workers report the same counters every time
RerunConfigs == {c \in SliceConfigs : c.len = MaxLen}

InitRerun == InitFor(RerunConfigs)

\* the object is run up to MaxCalls times
SpecRerun == InitRerun /\ [][NextRerun]_vars

SpecSlices == InitSlices /\ [][Next]_vars

(* ------------------------------- claims -------------------------------- *)
Ids == {<<j, s>> : j \in Iters, s \in Slots}

\* the orchestrator is between the first and the last read of a worker's counters
Aggregating == pc \in {"aggregate_init", "aggregate"}

\* C1: when no kernel matches the configuration, _run_core returns false and does
\* nothing else: no worker or thread is constructed or started, the power readers
\* are neither started nor stopped, no metric is written, and _averageMetric and
\* _hasRun keep the values they had when the call began.
C1_KernelFailureDoesNothing ==
    ~determineSequentialKernel =>
        /\ pc \in {"entry", "returned"}
        /\ pc = "returned" => ret = "false"
        /\ workers = << >> /\ worker_threads = << >> /\ running = {}
        /\ \A j \in Iters : hist.built[j] = 0 /\ hist.started[j] = 0 /\ hist.written[j] = 0
        /\ power.starts = 0 /\ power.stops = 0
        /\ _metricOnIter = [j \in Iters |-> Zero]
        /\ _averageMetric = hist.entry_average
        /\ _hasRun = hist.entry_hasRun

C1_Witness == ~determineSequentialKernel /\ pc = "returned" /\ ret = "false" /\ _iterations > 0

\* C2: a worker thread of iteration j is started (or running) only once all
\* _num_worker_threads workers and Thread wrappers of iteration j have been
\* constructed.
C2_StartAfterAllConstructed ==
    /\ \A j \in Iters :
          (hist.started[j] > 0 \/ \E id \in running : id[1] = j)
              => hist.built[j] = _num_worker_threads
    /\ (\E s \in 1 .. Len(worker_threads) :
            worker_threads[s].alive /\ worker_threads[s].started)
          => Len(workers) = _num_worker_threads /\ Len(worker_threads) = _num_worker_threads

C2_Witness ==
    /\ pc = "start" /\ t = 1 /\ _num_worker_threads >= 2
    /\ running # {} /\ ~worker_threads[2].started

\* C3 as stated: while the orchestrator reads the counters of an iteration, no
\* worker thread of that iteration is still running, also when a join() returned
\* false.
C3_NoWorkerRunsDuringAggregation ==
    Aggregating => \A id \in running : id[1] # i

\* C3 as amended: the counters of an iteration are read only after join() has
\* been called and has returned for every worker of the iteration, and a worker
\* whose join() returned true is no longer running while they are read.
C3_AggregationAfterAllJoinsReturned ==
    (Aggregating \/ pc = "metric") =>
        /\ hist.joined[i] = _num_worker_threads
        /\ \A s \in 1 .. Len(worker_threads) :
              /\ worker_threads[s].joined \in {"true", "false"}
              /\ worker_threads[s].joined = "true" => worker_threads[s].target \notin running

C3_Witness ==
    /\ pc = "aggregate" /\ t = 1 /\ _num_worker_threads >= 2
    /\ worker_threads[1].joined = "true"
    /\ worker_threads[2].joined = "false" /\ worker_threads[2].target \in running

\* the slots of `workers` whose object is alive
LiveWorkers == {s \in 1 .. Len(workers) : workers[s].alive}

\* the bytes of the buffer (as offsets from _mem_array) given to the worker in slot s
SliceBytes(s) == workers[s].mem .. (workers[s].mem + workers[s].len - 1)

\* C4: the worker with index t gets the slice [t * (len / n), (t+1) * (len / n)):
\* slices of different workers share no byte, every slice lies inside [0, len),
\* the slices of all n workers together are exactly the first n * (len / n)
\* bytes, and this is so in every iteration.
C4_SlicesPartitionBuffer ==
    LET q == _len \div _num_worker_threads
    IN  /\ \A s \in LiveWorkers :
              /\ workers[s].mem = (s - 1) * q
              /\ workers[s].mem + workers[s].len = s * q
              /\ 0 <= workers[s].mem /\ workers[s].mem + workers[s].len <= _len
        /\ \A s1, s2 \in LiveWorkers :
              s1 # s2 => \/ workers[s1].mem + workers[s1].len <= workers[s2].mem
                         \/ workers[s2].mem + workers[s2].len <= workers[s1].mem
        /\ config \notin ExampleConfigs =>
              /\ \A s1, s2 \in LiveWorkers :
                    s1 # s2 => SliceBytes(s1) \cap SliceBytes(s2) = {}
              /\ \A s \in LiveWorkers : SliceBytes(s) \subseteq 0 .. (_len - 1)
              /\ LiveWorkers = 1 .. _num_worker_threads =>
                    UNION {SliceBytes(s) : s \in LiveWorkers} = 0 .. (_num_worker_threads * q - 1)

C4_Witness ==
    /\ pc = "join" /\ i = 1 /\ _num_worker_threads = 2 /\ _len = 3
    /\ LiveWorkers = {1, 2}

\* C5 as stated: _run_core never constructs a worker whose slice is empty, i.e.
\* a configuration with len / num_workers < 1 is rejected.
C5_NoZeroLengthSlice ==
    \A s \in LiveWorkers : workers[s].len >= 1

\* C6 as stated: when avg_adjusted_ticks is zero the metric stored for the
\* iteration is still a finite value (no division by zero takes place).  It is
\* stated for the iterations in which every worker has completed and at least one
\* pass has been counted, the case in which the metric is required to be finite.
C6_MetricFiniteWhenAvgTicksZero ==
    (/\ pc = "cleanup"
     /\ locals.avg_adjusted_ticks = 0
     /\ locals.total_passes >= 1
     /\ hist.timed_out = {})
        => IsFinite(_metricOnIter[i])

RECURSIVE SumMetrics(_)
\* _metricOnIter[0] + ... + _metricOnIter[k - 1]
SumMetrics(k) == IF k = 0 THEN Zero ELSE DAdd(SumMetrics(k - 1), _metricOnIter[k - 1])

RECURSIVE SeenPasses(_)
\* the sum of the passes read from the first k workers of the iteration
SeenPasses(k) == IF k = 0 THEN 0 ELSE SeenPasses(k - 1) + hist.seen[k].passes

RECURSIVE SeenTicks(_)
\* the sum of the adjusted ticks read from the first k workers of the iteration
SeenTicks(k) == IF k = 0 THEN 0 ELSE SeenTicks(k - 1) + hist.seen[k].adjusted_ticks

\* every worker of the iteration reported 100 passes and 1,000,000 adjusted ticks
ExampleReports ==
    /\ config \in ExampleConfigs
    /\ \A s \in 1 .. Len(hist.seen) :
          hist.seen[s].passes = 100 /\ hist.seen[s].adjusted_ticks = 1000000

\* C8: the metric stored for an iteration is
\*   (total_passes * bytes_per_pass / MB) / (avg_adjusted_ticks * ns_per_tick / 1e9)
\* with total_passes the sum of the passes read from all workers, bytes_per_pass
\* the value read from worker 0 and avg_adjusted_ticks the integer quotient of the
\* sum of the adjusted ticks by the worker count (dummy ticks do not enter it); in
\* the worked example it is 400*64*1e9 / (1048576 * 1000000) = 24.41... MB/s.
C8_MetricFormula ==
    (pc = "cleanup" /\ Len(hist.seen) = _num_worker_threads) =>
        LET P == SeenPasses(_num_worker_threads)
            A == SeenTicks(_num_worker_threads) \div _num_worker_threads
            B == hist.seen[1].bytes_per_pass
            m == _metricOnIter[i]
        IN  /\ locals.total_passes = P
            /\ locals.avg_adjusted_ticks = A
            /\ A > 0 => m = DMul(Fin(P * B, A * ns_per_tick), Fin(E9, MB))
            /\ A = 0 => ~IsFinite(m)
            /\ ExampleReports =>
                  /\ P = 400 /\ A = 1000000
                  /\ m = Fin(3125, 128)
                  /\ 2441 * m.d <= 100 * m.n /\ 100 * m.n < 2442 * m.d

C8_Witness ==
    /\ pc = "cleanup" /\ Len(hist.seen) = _num_worker_threads
    /\ ExampleReports
    /\ locals.total_passes = 400

\* C9: once a kernel has been found nothing aborts the run: whatever the power
\* readers, the CPU lookup and the joins report, every worker of every iteration
\* is constructed and started, its counters are read, and _run_core returns true.
C9_DegradedConditionsNeverAbort ==
    determineSequentialKernel =>
        /\ ret # "false"
        /\ pc = "returned" =>
              /\ ret = "true"
              /\ \A j \in Iters :
                    /\ hist.built[j] = _num_worker_threads
                    /\ hist.started[j] = _num_worker_threads
                    /\ hist.joined[j] = _num_worker_threads
                    /\ hist.read[j] = _num_worker_threads
                    /\ hist.written[j] = 1
        /\ \A s \in LiveWorkers :
              (workers[s].cpu_id < 0 /\ pc \in {"join", "aggregate_init", "aggregate", "metric"})
                  => worker_threads[s].started

C9_Witness ==
    /\ pc = "returned" /\ ret = "true" /\ _iterations = 2 /\ _num_worker_threads = 2
    /\ power.start_ok = "failed" /\ power.stop_ok = "failed"
    /\ cpu_id_in_numa_node(1) < 0
    /\ hist.timed_out # {}

InLoop ==
    pc \in {"construct", "start", "join", "aggregate_init", "aggregate", "metric", "cleanup"}

C12_HasRunOnlyOnSuccess ==
    /\ (_hasRun /\ ~hist.entry_hasRun) =>
          /\ pc = "returned" /\ ret = "true"
          /\ \A j \in Iters :
                /\ hist.written[j] = 1
                /\ hist.destroyed[j] = _num_worker_threads
          /\ power.stops = 1
          /\ _averageMetric = DDiv(SumMetrics(_iterations), ToDouble(_iterations))
    /\ ret = "false" =>
          /\ _hasRun = hist.entry_hasRun
          /\ _averageMetric = hist.entry_average
          /\ \A j \in Iters : hist.written[j] = 0 /\ _metricOnIter[j] = Zero
    /\ ret = "true" => _hasRun

C12_Witness ==
    /\ _hasRun /\ ret = "true" /\ _iterations = MaxIter
    /\ \A j \in Iters : hist.written[j] = 1

\* the state a call that returns false leaves behind
C12_WitnessFailure ==
    ret = "false" /\ ~_hasRun

\* a degraded condition has occurred in the iteration under way: a worker was
\* given no logical CPU id, or a join() reported that a worker did not complete
DegradedIteration ==
    \E s \in 1 .. Len(workers) :
        /\ workers[s].alive
        /\ \/ workers[s].cpu_id < 0
           \/ (s <= Len(worker_threads) /\ worker_threads[s].joined = "false")

\* C13: once the workers of an iteration have been aggregated, iter_warning is
\* true whenever a degraded condition occurred in that iteration (the claim
\* further wants the flag shown with the result whatever the verbose setting).
C13_DegradedIterationIsFlagged ==
    (pc = "metric" /\ DegradedIteration) => locals.iter_warning

\* C14: within one call _metricOnIter[j] is written in increasing order of j,
\* each element exactly once, at the end of iteration j after its workers were
\* aggregated; a written element never changes again, and no element outside
\* [0, iterations) exists or is written.
C14_MetricsWrittenOnceInOrder ==
    /\ [](/\ DOMAIN _metricOnIter = Iters
          /\ \A j \in Iters :
                /\ hist.written[j] <= 1
                /\ hist.written[j] = 1 =>
                      /\ hist.read[j] = _num_worker_threads
                      /\ \A k \in Iters : k < j => hist.written[k] = 1
                /\ hist.written[j] = 0 => _metricOnIter[j] = Zero)
    /\ [][\A j \in Iters :
             /\ hist.written[j] = 1 => _metricOnIter'[j] = _metricOnIter[j]
             /\ _metricOnIter'[j] # _metricOnIter[j] =>
                   (pc = "metric" /\ j = i /\ hist'.written[j] = 1)]_vars

C14_Witness ==
    /\ pc = "cleanup" /\ i = MaxIter - 1
    /\ \A j \in Iters : hist.written[j] = 1
    /\ _metricOnIter[0] # Zero /\ _metricOnIter[i] # _metricOnIter[0]

\* C15: the results of a call are determined by what the workers of that call
\* report: a second call on the same object whose workers report the same
\* counters as those of the first leaves the same per-iteration metrics and the
\* same _averageMetric, whatever _averageMetric held when it began.
C15_AverageIndependentOfEntryValue ==
    (/\ pc = "returned" /\ ret = "true"
     /\ hist.calls > 1 /\ hist.prev_clean /\ hist.timed_out = {}
     /\ Cardinality(WorkerResults) = 1) =>
        /\ _metricOnIter = hist.prev_metrics
        /\ _averageMetric = hist.entry_average

\* the vectors are empty when an iteration begins, the Thread in slot t wraps the
\* worker in slot t of the same iteration, all workers of a finished iteration
\* have been destroyed exactly once, and nothing is left after a return of true
CleanSlate ==
    /\ (pc = "construct" /\ t = 0) => (workers = << >> /\ worker_threads = << >>)
    /\ \A s \in 1 .. Len(worker_threads) :
          worker_threads[s].alive =>
              /\ workers[s].alive
              /\ worker_threads[s].target = workers[s].id
              /\ workers[s].id = <<i, s - 1>>
    /\ \A j \in Iters :
          /\ hist.destroyed[j] <= hist.built[j]
          /\ (j < i \/ pc \in {"stop_power", "finalize"} \/ ret = "true") =>
                (hist.built[j] = _num_worker_threads
                 /\ hist.destroyed[j] = _num_worker_threads)
    /\ (pc = "returned" /\ ret = "true") =>
          (workers = << >> /\ worker_threads = << >>)

\* C16: every iteration starts from a clean slate (see CleanSlate) and its metric
\* depends only on the counters of that iteration's workers: the counters that
\* were aggregated for iteration i were left there by workers of iteration i,
\* none by the thread of another worker.
C16_CleanSlateEachIteration ==
    /\ CleanSlate
    /\ pc = "metric" =>
          \A s \in 1 .. Len(hist.seen) : ~hist.seen[s].foreign

\* C18: no worker object and no Thread is destroyed while its thread is still
\* running, also after a join() that returned false: every running thread has
\* its worker object and its Thread alive.
C18_NoDestroyWhileRunning ==
    \A id \in running :
        \E s \in 1 .. Len(workers) :
            /\ workers[s].alive /\ workers[s].id = id
            /\ worker_threads[s].alive /\ worker_threads[s].target = id

\* what has been done for iteration j happened in the order construct, start,
\* join, aggregate, store, destroy, each step for all workers before the next
ProtocolOrder(j) ==
    /\ hist.built[j] <= _num_worker_threads
    /\ hist.started[j] > 0 => hist.built[j] = _num_worker_threads
    /\ hist.joined[j] > 0 => hist.started[j] = _num_worker_threads
    /\ hist.read[j] > 0 => hist.joined[j] = _num_worker_threads
    /\ hist.written[j] > 0 => hist.read[j] = _num_worker_threads
    /\ hist.destroyed[j] > 0 => hist.written[j] = 1
    /\ hist.started[j] <= hist.built[j] /\ hist.joined[j] <= hist.started[j]
    /\ hist.read[j] <= hist.joined[j] /\ hist.destroyed[j] <= hist.read[j]

\* iteration j has been executed in full, once
ProtocolDone(j) ==
    /\ hist.built[j] = _num_worker_threads
    /\ hist.started[j] = _num_worker_threads
    /\ hist.joined[j] = _num_worker_threads
    /\ hist.read[j] = _num_worker_threads
    /\ hist.written[j] = 1
    /\ hist.destroyed[j] = _num_worker_threads

\* C17: when the kernel is resolved and every join() returns, _run_core()
\* terminates, and it has then executed the protocol of an iteration exactly
\* `iterations` times: num_workers workers constructed per iteration, each
\* started once and joined once, in the order construct, start, join, aggregate,
\* destroy.
C17_TerminatesAfterAllIterations ==
    /\ determineSequentialKernel => <>(pc = "returned" /\ ret = "true")
    /\ [](\A j \in Iters : ProtocolOrder(j))
    /\ []((pc = "returned" /\ ret = "true") => \A j \in Iters : ProtocolDone(j))

C17_Witness ==
    /\ pc = "returned" /\ ret = "true"
    /\ _iterations = MaxIter /\ _num_worker_threads = MaxWorkers
    /\ \A j \in Iters : ProtocolDone(j)

\* C19: with iterations = 0 and a kernel that resolves, _run_core() constructs
\* and starts no worker and writes no per-iteration metric, still starts and
\* stops the power readers once each, sets _hasRun and returns true.
C19_ZeroIterations ==
    (determineSequentialKernel /\ _iterations = 0) =>
        /\ ~InLoop
        /\ workers = << >> /\ worker_threads = << >> /\ running = {}
        /\ DOMAIN _metricOnIter = {}
        /\ power.starts <= 1 /\ power.stops <= power.starts
        /\ pc = "returned" =>
              /\ ret = "true" /\ _hasRun
              /\ power.starts = 1 /\ power.stops = 1

C19_Witness ==
    /\ determineSequentialKernel /\ _iterations = 0
    /\ pc = "returned" /\ _hasRun /\ power.stops = 1

====
